---- MODULE Spec2Model ----
(***************************************************************************)
(* State-machine model of google-calendar-sync, latest revision of Code.ts. *)
(*                                                                         *)
(* fetchEvents pages through a source calendar (incrementally with the     *)
(* stored sync token, or in full over a 30-day window), hands every event  *)
(* that is not an out-of-office block to a callback (syncEvent or          *)
(* deleteEvent), and stores the listing's nextSyncToken when the page      *)
(* chain is exhausted.  syncEvent looks the event up on the primary        *)
(* calendar and imports, updates or removes its mirror.                    *)
(*                                                                         *)
(* Optional values (undefined / null in the code) are sequences of length  *)
(* at most one: <<>> is "absent", <<v>> is "present with value v".         *)
(* Strings that the code concatenates are sequences of string atoms.       *)
(***************************************************************************)
EXTENDS Integers, Sequences, FiniteSets, TLC

VARIABLES
    appConfig,   \* global appConfig: configured source calendar id -> CalendarSyncConfig
    source,      \* gateway side: source[cal][id] = optional event of a source calendar
    modVer,      \* gateway side: modVer[cal][id] = calendar version of the event's last change
    srvVer,      \* gateway side: srvVer[cal] = current version of the calendar (sync tokens)
    primary,     \* gateway side: primary[id] = optional event of the primary calendar
    freshUsed,   \* gateway side: how many server-generated ids the primary calendar handed out
    store,       \* PropertiesService user properties: calendar id -> stored sync token
    fr,          \* fr[r] = the fetchEvents activation of trigger execution r
    log,         \* log[r] = list / callback / property calls of r's current fetchEvents call
    lastCall     \* the last callback invocation: event, lookup result, write calls issued

vars == <<appConfig, source, modVer, srvVer, primary, freshUsed, store, fr, log, lastCall>>

----------------------------------------------------------------------------
(* Bounds of the model *)

\* number of changes the environment makes (edits of source events, provider locks)
MaxEdits == 2
\* number of cursor-invalid answers the gateway gives within one trigger execution
MaxRestarts == 2
\* number of server-generated identifiers the primary calendar can hand out
MaxFresh == 1
\* options.maxResults
maxResults == 100

----------------------------------------------------------------------------
(* Values *)

Calendars == <<"calA", "calB">>
CalendarIds == {Calendars[i] : i \in 1..Len(Calendars)}
primaryCalId == "primary"
OtherOrganizer == "someone@else"

\* identifiers of source events, and the identifiers the primary calendar generates
EventOrder == <<1, 2>>
EventIds == {EventOrder[k] : k \in 1..Len(EventOrder)}
FreshIds == {10 + k : k \in 1..MaxFresh}
PrimaryIds == EventIds \cup FreshIds
\* an event resource without an id field
NoId == 0

RunIds == {1, 2}
MainRun == 1

Min(a, b) == IF a < b THEN a ELSE b

\* enum ResponseStatus
ResponseStatus ==
    [NeedsAction |-> "needsAction", Declined |-> "declined",
     Tentative |-> "tentative", Accepted |-> "accepted"]

Attendee(self, rs) == [self |-> self, responseStatus |-> rs]

\* The event shapes a source calendar is edited to.  organizer: <<>> = no organizer,
\* <<"self">> = the calendar itself; attendees: <<>> = no attendees field.
Shape(status, transparency, organizer, attendees, eventType) ==
    [status |-> status, transparency |-> transparency, organizer |-> organizer,
     attendees |-> attendees, eventType |-> eventType]

EventShapes ==
    { Shape("confirmed", "opaque", <<"self">>, <<>>, "default"),
      Shape("cancelled", "opaque", <<"self">>, <<>>, "default"),
      Shape("confirmed", "opaque", <<"self">>, <<>>, "outOfOffice"),
      Shape("confirmed", "opaque", <<"other">>,
            << <<Attendee(FALSE, "accepted"), Attendee(TRUE, "accepted")>> >>, "default"),
      Shape("confirmed", "opaque", <<"other">>,
            << <<Attendee(FALSE, "accepted"), Attendee(TRUE, "declined")>> >>, "default"),
      Shape("confirmed", "transparent", <<"other">>,
            << <<Attendee(TRUE, "accepted")>> >>, "default"),
      Shape("confirmed", "opaque", <<"other">>, <<>>, "default") }

\* The event of calendar cal with identifier id, in shape sh, at revision seq.
MkEvent(cal, id, sh, seq) ==
    [id |-> id, iCalUID |-> id, status |-> sh.status, transparency |-> sh.transparency,
     organizer |-> IF sh.organizer = <<>> THEN <<>>
                   ELSE IF sh.organizer[1] = "self" THEN <<cal>> ELSE <<OtherOrganizer>>,
     attendees |-> sh.attendees, eventType |-> sh.eventType,
     sequence |-> seq, summary |-> <<"title">>]

\* A JavaScript value that is undefined, null or a string (a sequence of atoms).
Undefined == [kind |-> "undefined", value |-> <<>>]
Null == [kind |-> "null", value |-> <<>>]
Str(s) == [kind |-> "string", value |-> s]
\* JavaScript truthiness of such a value: a non-empty string
Truthy(v) == v.kind = "string" /\ v.value # <<>>

\* interface CalendarSyncConfig
Config(titlePrefix, summary) ==
    [colorId |-> Undefined, titlePrefix |-> titlePrefix, summary |-> summary,
     copyDescription |-> FALSE, visibility |-> Undefined]

----------------------------------------------------------------------------
(* Calendar gateway: Calendar.Events.list / get / import / update / remove *)

\* Events.list result set: with a sync token the events changed since the token was
\* issued, without one every event of the calendar (the 30-day window).
ListResult(cal, syncToken) ==
    LET keep(i) == /\ source[cal][i] # <<>>
                   /\ (syncToken # <<>> => modVer[cal][i] > syncToken[1])
        ids == SelectSeq(EventOrder, keep)
    IN [k \in 1..Len(ids) |-> source[cal][ids[k]][1]]

\* One page of the result set starting at item `from`, holding `size` items.
\* nextSyncToken comes with the last page only.
ListPage(cal, syncToken, from, size) ==
    LET all == ListResult(cal, syncToken)
        upto == from + size - 1
    IN [items |-> SubSeq(all, from, upto),
        nextPageToken |-> IF upto < Len(all) THEN <<upto + 1>> ELSE <<>>,
        nextSyncToken |-> IF upto < Len(all) THEN <<>> ELSE <<srvVer[cal]>>]

\* The page sizes the gateway may answer with (never more than options.maxResults).
PageSizes(cal, syncToken, from) ==
    LET left == Len(ListResult(cal, syncToken)) - from + 1
    IN IF left <= 0 THEN {0} ELSE 1..Min(maxResults, left)

\* Events.get(primaryCalId, id): <<>> is the "Not Found" answer.
EventsGet(prim, id) == prim[id]

\* Events.import: the event is stored under its own id, or under a server-generated
\* one when the resource carries none.
ImportId(prim, used, eventCopy) ==
    IF eventCopy.id # NoId THEN eventCopy.id ELSE 10 + used + 1

ImportAccepted(prim, used, eventCopy) ==
    /\ ImportId(prim, used, eventCopy) \in PrimaryIds
    /\ prim[ImportId(prim, used, eventCopy)] = <<>>

Stored(id, eventCopy, locked) ==
    [id |-> id, iCalUID |-> eventCopy.iCalUID, status |-> "confirmed", locked |-> locked,
     sequence |-> eventCopy.sequence, summary |-> eventCopy.summary,
     reminders |-> eventCopy.reminders, eventType |-> eventCopy.eventType,
     sourceTitle |-> eventCopy.source.title]

EventsImport(prim, used, eventCopy) ==
    LET id == ImportId(prim, used, eventCopy)
    IN [prim EXCEPT ![id] = <<Stored(id, eventCopy, FALSE)>>]

\* Events.update replaces the resource; a resource without status is confirmed.
UpdateAccepted(prim, id) == id \in PrimaryIds /\ prim[id] # <<>> /\ ~prim[id][1].locked

EventsUpdate(prim, id, eventCopy) ==
    [prim EXCEPT ![id] = <<Stored(id, eventCopy, prim[id][1].locked)>>]

\* Events.remove leaves the resource behind with status cancelled.
RemoveAccepted(prim, id) ==
    id \in PrimaryIds /\ prim[id] # <<>> /\ prim[id][1].status # "cancelled"

EventsRemove(prim, id) ==
    [prim EXCEPT ![id] = <<[prim[id][1] EXCEPT !.status = "cancelled"]>>]

----------------------------------------------------------------------------
(* copyEvent *)

\* summary of the mirror
MirrorSummary(config, calendarId, eventSummary) ==
    IF Truthy(config.summary) THEN config.summary.value
    ELSE IF config.titlePrefix.kind = "undefined" THEN <<"[", calendarId, "] ">> \o eventSummary
    ELSE IF config.titlePrefix.kind # "null" THEN config.titlePrefix.value \o <<" ">> \o eventSummary
    ELSE eventSummary

\* reminders: { useDefault: false, overrides: [] }
DefaultReminders == [useDefault |-> TRUE, overrides |-> <<>>]

NoReminders == [useDefault |-> FALSE, overrides |-> <<>>]

CopyWithoutId(event) == NoId

\* id: event.id
CopyId(event) == event.id

copyEvent(event, calendarId) ==
    LET calendarSyncConfig == appConfig[calendarId]
    IN [id |-> CopyId(event),
        iCalUID |-> event.iCalUID,
        reminders |-> NoReminders,
        colorId |-> calendarSyncConfig.colorId,
        summary |-> MirrorSummary(calendarSyncConfig, calendarId, event.summary),
        source |-> [title |-> <<"[", calendarId, "] ">> \o event.summary],
        sequence |-> event.sequence,
        visibility |-> calendarSyncConfig.visibility,
        eventType |-> event.eventType]

----------------------------------------------------------------------------
(* syncEvent: disposition *)

isTransparent(event) == event.transparency = "transparent"

NeverCancelled(event) == FALSE

isCancelled(event) == event.status = "cancelled"

isInvitation(calendarId, event) ==
    event.organizer # <<>> /\ event.organizer[1] # calendarId

AcceptedByAnyAttendee(calendarId, event) ==
    /\ isInvitation(calendarId, event)
    /\ event.attendees # <<>>
    /\ \E k \in 1..Len(event.attendees[1]) :
          event.attendees[1][k].responseStatus = ResponseStatus.Accepted

isAccepted(calendarId, event) ==
    /\ isInvitation(calendarId, event)
    /\ event.attendees # <<>>
    /\ LET matching == SelectSeq(event.attendees[1], LAMBDA attendee : attendee.self)
       IN Len(matching) > 0 /\ matching[1].responseStatus = ResponseStatus.Accepted

SuppressIgnoringTransparent(calendarId, event) ==
    \/ isCancelled(event)
    \/ isInvitation(calendarId, event) /\ ~isAccepted(calendarId, event)

SuppressIgnoringCancelled(calendarId, event) ==
    \/ isInvitation(calendarId, event) /\ ~isAccepted(calendarId, event)
    \/ isTransparent(event)

\* the condition of the remove branch
Suppress(calendarId, event) ==
    \/ isCancelled(event)
    \/ isInvitation(calendarId, event) /\ ~isAccepted(calendarId, event)
    \/ isTransparent(event)


\* primaryCopy && primaryCopy.status !== 'cancelled'
AnyMirror(primaryCopy) == primaryCopy # <<>>

MirrorIsLive(primaryCopy) == primaryCopy # <<>> /\ primaryCopy[1].status # "cancelled"

\* if (primaryCopy.locked)
NeverLocked(primaryCopy) == FALSE

CopyIsLocked(primaryCopy) == primaryCopy[1].locked

\* catch (e) { Logger.log('Error attempting to ...: %s. Skipping.', e.toString()); }
PropagatesFailure(ok) == ~ok

CatchRethrows(ok) == FALSE

\* const primaryCalId = 'primary': the calendar syncEvent and deleteEvent pass to
\* get, import, update and remove, whatever calendarId they are called with
SourceAsTarget(calendarId) == calendarId

TargetCalendar(calendarId) == primaryCalId

\* catch(e) of the lookup: 'Not Found' is no mirror, everything else is thrown on
LookupFailureIsNotFound(getOk) == FALSE

LookupRethrows(getOk) == ~getOk

\* if (primaryCopy): the update branch
LiveCopyOnly(primaryCopy) == primaryCopy # <<>> /\ primaryCopy[1].status # "cancelled"

HasCopy(primaryCopy) == primaryCopy # <<>>

\* a write call: the calendar it is issued on, the operation, the event id, whether
\* the gateway served it, and the event resource it carried
Call(calendar, op, id, ok, resource) ==
    [calendar |-> calendar, op |-> op, id |-> id, ok |-> ok, resource |-> resource]

\* Calendar.Events.get: the calendar it is issued on and whether the gateway served it
Lookup(calendar, ok) == [calendar |-> calendar, ok |-> ok]

\* syncEvent(calendarId, event) on primary calendar prim; getOk and writeOk are the
\* gateway's choice to serve or fail the lookup and the write call.  The result holds
\* the primary calendar afterwards, the calls issued, and whether syncEvent threw.
syncEvent(calendarId, event, prim, used, getOk, writeOk) ==
    LET target == TargetCalendar(calendarId)
        primaryCopy == IF getOk THEN EventsGet(prim, event.id) ELSE <<>>
        eventCopy == copyEvent(event, calendarId)
        same(calls, threw) ==
            [primary |-> prim, freshUsed |-> used, primaryCopy |-> primaryCopy,
             lookup |-> <<Lookup(target, getOk)>>, calls |-> calls, threw |-> threw]
    IN IF LookupRethrows(getOk) THEN
           same(<<>>, TRUE)
       ELSE IF Suppress(calendarId, event) THEN
           IF MirrorIsLive(primaryCopy) THEN
               LET ok == writeOk /\ RemoveAccepted(prim, primaryCopy[1].id)
               IN [same(<<Call(target, "remove", primaryCopy[1].id, ok, <<>>)>>, CatchRethrows(ok))
                      EXCEPT !.primary = IF ok THEN EventsRemove(prim, primaryCopy[1].id)
                                         ELSE prim]
           ELSE same(<<>>, FALSE)
       ELSE IF HasCopy(primaryCopy) THEN
           IF CopyIsLocked(primaryCopy) THEN same(<<>>, FALSE)
           ELSE
               LET ok == writeOk /\ UpdateAccepted(prim, primaryCopy[1].id)
               IN [same(<<Call(target, "update", primaryCopy[1].id, ok, <<eventCopy>>)>>, CatchRethrows(ok))
                      EXCEPT !.primary = IF ok THEN EventsUpdate(prim, primaryCopy[1].id, eventCopy)
                                         ELSE prim]
       ELSE
           LET ok == writeOk /\ ImportAccepted(prim, used, eventCopy)
           IN [same(<<Call(target, "import", ImportId(prim, used, eventCopy), ok, <<eventCopy>>)>>,
                    CatchRethrows(ok))
                  EXCEPT !.primary = IF ok THEN EventsImport(prim, used, eventCopy) ELSE prim,
                         !.freshUsed = IF ok /\ eventCopy.id = NoId THEN used + 1 ELSE used]

\* deleteEvent(calendarId, event): removes whatever the primary calendar holds under
\* the event's id; "Not Found" and every other failure are swallowed.
deleteEvent(calendarId, event, prim, used, writeOk) ==
    LET ok == writeOk /\ RemoveAccepted(prim, event.id)
    IN [primary |-> IF ok THEN EventsRemove(prim, event.id) ELSE prim,
        freshUsed |-> used, primaryCopy |-> <<>>, lookup |-> <<>>,
        calls |-> <<Call(TargetCalendar(calendarId), "remove", event.id, ok, <<>>)>>,
        threw |-> FALSE]

----------------------------------------------------------------------------
(* fetchEvents *)

IdleFrame ==
    [pc |-> "idle", entry |-> "none", cal |-> "none", todo |-> <<>>,
     callback |-> "none", fullSync |-> FALSE, syncToken |-> <<>>,
     pageToken |-> <<>>, response |-> <<>>, idx |-> 0, depth |-> 0, raced |-> FALSE,
     snapshot |-> <<>>]

NoCall ==
    [callback |-> "none", cal |-> "none", event |-> <<>>, primaryCopy |-> <<>>,
     lookup |-> <<>>, calls |-> <<>>, threw |-> FALSE, before |-> <<>>]

\* properties.getProperty / setProperty / deleteProperty on key 'syncToken/' + calendarId
getProperty(st, calendarId) == IF calendarId \in DOMAIN st THEN <<st[calendarId]>> ELSE <<>>

ForgetToSet(st, calendarId, value) == st

SetUnlessPresent(st, calendarId, value) ==
    IF calendarId \in DOMAIN st THEN st ELSE (calendarId :> value) @@ st

setProperty(st, calendarId, value) == (calendarId :> value) @@ st

KeepProperty(st, calendarId) == st

deleteProperty(st, calendarId) == [c \in (DOMAIN st) \ {calendarId} |-> st[c]]

\* if (syncToken && !fullSync) options.syncToken = syncToken; else options.timeMin = ...
AlwaysStoredToken(st, calendarId, fullSync) == getProperty(st, calendarId)

OptionsSyncToken(st, calendarId, fullSync) ==
    IF getProperty(st, calendarId) # <<>> /\ ~fullSync
    THEN getProperty(st, calendarId) ELSE <<>>

\* Entry of fetchEvents(calendarId, callback, fullSync): options and loop variables.
BeginFetch(f, calendarId, callback, fullSync, st) ==
    [f EXCEPT !.pc = "list", !.cal = calendarId, !.callback = callback,
              !.fullSync = fullSync,
              !.syncToken = OptionsSyncToken(st, calendarId, fullSync),
              !.pageToken = <<>>, !.response = <<>>, !.idx = 0]

\* .filter(event => event['eventType'] != "outOfOffice")
PassesEverything(event) == TRUE

PassesFilter(event) == event.eventType # "outOfOffice"

Filtered(response) == SelectSeq(response.items, PassesFilter)

\* while (pageToken)
NeverLoops(pageToken) == FALSE

LoopAgain(pageToken) == pageToken # <<>>

\* The catch block's test for the invalidated sync token; kind is the gateway's error.
AlwaysRestarts(kind) == TRUE

IsSyncTokenInvalid(kind) == kind = "invalid"

Entry(op, id, res, inc) ==
    [op |-> op, id |-> id, res |-> res, inc |-> inc, failed |-> FALSE]

\* a callback invocation; failed: one of its import / update / remove calls failed
CallbackEntry(id, res, calls) ==
    [Entry("callback", id, res, FALSE) EXCEPT
        !.failed = \E k \in 1..Len(calls) : ~calls[k].ok]

\* The entry point of execution r has returned or thrown.
RunOver(r) ==
    \/ fr[r].pc = "thrown"
    \/ fr[r].pc = "returned" /\ fr[r].todo = <<>>

\* No trigger execution is under way.
Quiet == \A r \in RunIds : fr[r].pc = "idle"

ConfiguredCalendars == SelectSeq(Calendars, LAMBDA c : c \in DOMAIN appConfig)

\* function onCalendarUpdateEvent(event): fetchEvents(event.calendarId, syncEvent)
onCalendarUpdateEvent(r, calendarId) ==
    /\ Quiet
    /\ calendarId \in DOMAIN appConfig
    /\ fr' = [fr EXCEPT ![r] = BeginFetch(
                 [IdleFrame EXCEPT !.entry = "onCalendarUpdateEvent"],
                 calendarId, "syncEvent", FALSE, store)]
    /\ log' = [log EXCEPT ![r] = <<>>]
    /\ UNCHANGED <<appConfig, source, modVer, srvVer, primary, freshUsed, store, lastCall>>

\* The first iteration of the bulk entry points' loop over appConfig.
StartBulk(r, entry, callback) ==
    /\ Quiet
    /\ ConfiguredCalendars # <<>>
    /\ fr' = [fr EXCEPT ![r] = BeginFetch(
                 [IdleFrame EXCEPT !.entry = entry, !.todo = Tail(ConfiguredCalendars)],
                 Head(ConfiguredCalendars), callback, TRUE, store)]
    /\ log' = [log EXCEPT ![r] = <<>>]
    /\ UNCHANGED <<appConfig, source, modVer, srvVer, primary, freshUsed, store, lastCall>>

\* function syncAllEvents(): fetchEvents(calendarId, syncEvent, true) per calendar
syncAllEvents(r) == StartBulk(r, "syncAllEvents", "syncEvent")

\* function removeAllEvents(): fetchEvents(calendarId, deleteEvent, true) per calendar
removeAllEvents(r) == StartBulk(r, "removeAllEvents", "deleteEvent")

\* The next iteration of the bulk loop, after fetchEvents returned.
NextCalendar(r) ==
    /\ fr[r].pc = "returned"
    /\ fr[r].todo # <<>>
    /\ fr' = [fr EXCEPT ![r] = BeginFetch(
                 [fr[r] EXCEPT !.todo = Tail(fr[r].todo), !.depth = 0],
                 Head(fr[r].todo), fr[r].callback, TRUE, store)]
    /\ log' = [log EXCEPT ![r] = <<>>]
    /\ UNCHANGED <<appConfig, source, modVer, srvVer, primary, freshUsed, store, lastCall>>

\* response = Calendar.Events.list(calendarId, options) answers with a page.
ListOk(r) ==
    LET f == fr[r]
        from == IF f.pageToken = <<>> THEN 1 ELSE f.pageToken[1]
    IN /\ f.pc = "list"
       /\ \E size \in PageSizes(f.cal, f.syncToken, from) :
             fr' = [fr EXCEPT ![r] = [f EXCEPT !.pc = "dispatch",
                       !.response = <<ListPage(f.cal, f.syncToken, from, size)>>,
                       !.idx = 1]]
       /\ log' = [log EXCEPT ![r] = Append(@, Entry("list", from, "ok", f.syncToken # <<>>))]
       /\ UNCHANGED <<appConfig, source, modVer, srvVer, primary, freshUsed, store, lastCall>>

\* Calendar.Events.list throws; kind "invalid" is the message ending with
\* 'Sync token is no longer valid, a full sync is required.'
ListThrows(r, kind) ==
    LET f == fr[r]
        from == IF f.pageToken = <<>> THEN 1 ELSE f.pageToken[1]
        listed == Append(log[r], Entry("list", from, kind, f.syncToken # <<>>))
    IN /\ f.pc = "list"
       /\ IF IsSyncTokenInvalid(kind)
          THEN \* properties.deleteProperty(syncTokenKey); fetchEvents(calendarId, callback, true); return
               /\ store' = deleteProperty(store, f.cal)
               /\ fr' = [fr EXCEPT ![r] = BeginFetch([f EXCEPT !.depth = f.depth + 1],
                                                     f.cal, f.callback, TRUE, store')]
               /\ log' = [log EXCEPT ![r] = Append(listed, Entry("deleteProperty", 0, "ok", FALSE))]
          ELSE \* throw new Error("Error while listing events", { cause: e })
               /\ fr' = [fr EXCEPT ![r] = [f EXCEPT !.pc = "thrown"]]
               /\ log' = [log EXCEPT ![r] = listed]
               /\ UNCHANGED store
       /\ UNCHANGED <<appConfig, source, modVer, srvVer, primary, freshUsed, lastCall>>

ListCursorInvalid(r) ==
    /\ fr[r].depth < MaxRestarts
    /\ ListThrows(r, "invalid")

ListError(r) == ListThrows(r, "error")

\* One iteration of response.items.filter(...).forEach(event => callback(calendarId, event))
\* The gateway applies a write to the calendar the call names: the calls of a
\* callback change the primary calendar when they are issued on it,
OnPrimary(calls) == \A k \in DOMAIN calls : calls[k].calendar = primaryCalId

\* and a served call issued on a source calendar changes the event there.
Written(src, calls) ==
    [c \in DOMAIN src |-> [i \in DOMAIN src[c] |->
        IF \E k \in DOMAIN calls :
               /\ calls[k].calendar = c /\ calls[k].id = i /\ calls[k].ok
               /\ src[c][i] # <<>>
        THEN LET call == calls[CHOOSE k \in DOMAIN calls : calls[k].calendar = c /\ calls[k].id = i]
             IN IF call.op = "remove"
                THEN <<[src[c][i][1] EXCEPT !.status = "cancelled"]>>
                ELSE <<[src[c][i][1] EXCEPT !.summary = call.resource[1].summary]>>
        ELSE src[c][i]]]

Dispatch(r, getOk, writeOk) ==
    LET f == fr[r]
        items == Filtered(f.response[1])
        event == items[f.idx]
        out == IF f.callback = "syncEvent"
               THEN syncEvent(f.cal, event, primary, freshUsed, getOk, writeOk)
               ELSE deleteEvent(f.cal, event, primary, freshUsed, writeOk)
    IN /\ f.pc = "dispatch"
       /\ f.idx <= Len(items)
       /\ primary' = IF OnPrimary(out.calls) THEN out.primary ELSE primary
       /\ source' = Written(source, out.calls)
       /\ freshUsed' = out.freshUsed
       /\ lastCall' = [callback |-> f.callback, cal |-> f.cal, event |-> <<event>>,
                       primaryCopy |-> out.primaryCopy, lookup |-> out.lookup,
                       calls |-> out.calls,
                       threw |-> out.threw, before |-> <<primary>>]
       /\ fr' = [fr EXCEPT ![r] = IF out.threw THEN [f EXCEPT !.pc = "thrown"]
                                  ELSE [f EXCEPT !.idx = f.idx + 1]]
       /\ log' = [log EXCEPT ![r] = Append(@,
                     CallbackEntry(event.id, IF out.threw THEN "threw" ELSE "ok", out.calls))]
       /\ UNCHANGED <<appConfig, modVer, srvVer, store>>

SyncEventCall(r) ==
    /\ fr[r].callback = "syncEvent"
    /\ \E getOk \in BOOLEAN, writeOk \in BOOLEAN : Dispatch(r, getOk, writeOk)

DeleteEventCall(r) ==
    /\ fr[r].callback = "deleteEvent"
    /\ \E writeOk \in BOOLEAN : Dispatch(r, TRUE, writeOk)

\* The trigger execution ends: its locals are gone.
Exit(r) ==
    /\ RunOver(r)
    /\ fr' = [fr EXCEPT ![r] = IdleFrame]
    /\ log' = [log EXCEPT ![r] = <<>>]
    /\ lastCall' = NoCall
    /\ UNCHANGED <<appConfig, source, modVer, srvVer, primary, freshUsed, store>>

\* pageToken = response.nextPageToken; } while (pageToken);
EndPage(r) ==
    LET f == fr[r]
    IN /\ f.pc = "dispatch"
       /\ f.idx > Len(Filtered(f.response[1]))
       /\ fr' = [fr EXCEPT ![r] = [f EXCEPT
                    !.pageToken = f.response[1].nextPageToken,
                    !.pc = IF LoopAgain(f.response[1].nextPageToken) THEN "list" ELSE "set"]]
       /\ UNCHANGED <<appConfig, source, modVer, srvVer, primary, freshUsed, store, log, lastCall>>

\* properties.setProperty(syncTokenKey, response.nextSyncToken), then return
SetCursor(r) ==
    LET f == fr[r]
        token == f.response[1].nextSyncToken
    IN /\ f.pc = "set"
       /\ store' = IF token # <<>> THEN setProperty(store, f.cal, token[1])
                   ELSE setProperty(store, f.cal, -1)
       /\ fr' = [fr EXCEPT ![r] = [f EXCEPT !.pc = "returned"]]
       /\ log' = [log EXCEPT ![r] = Append(@,
                     Entry("setProperty", IF token # <<>> THEN token[1] ELSE -1, "ok", FALSE))]
       /\ UNCHANGED <<appConfig, source, modVer, srvVer, primary, freshUsed, lastCall>>

----------------------------------------------------------------------------
(* Environment: the owner of a source calendar changes an event *)

\* Changes made so far by the environment: edits of source events and provider locks.
TotalEdits ==
    srvVer["calA"] + srvVer["calB"]
    + Cardinality({i \in PrimaryIds : primary[i] # <<>> /\ primary[i][1].locked})

\* Identifiers come into use in order: an event is created once its predecessors exist.
EditEvent(cal, id, sh) ==
    /\ cal \in DOMAIN appConfig
    /\ TotalEdits < MaxEdits
    /\ \A i \in EventIds : i < id => source[cal][i] # <<>>
    /\ LET seq == IF source[cal][id] = <<>> THEN 0 ELSE source[cal][id][1].sequence + 1
       IN source' = [source EXCEPT ![cal][id] = <<MkEvent(cal, id, sh, seq)>>]
    /\ srvVer' = [srvVer EXCEPT ![cal] = @ + 1]
    /\ modVer' = [modVer EXCEPT ![cal][id] = srvVer[cal] + 1]
    /\ UNCHANGED <<appConfig, primary, freshUsed, store, fr, log, lastCall>>

SourceEdit(cal, id, sh) ==
    /\ Quiet
    /\ EditEvent(cal, id, sh)

\* The calendar provider locks an event of the primary calendar against edits.
LockMirror(id) ==
    /\ Quiet
    /\ TotalEdits < MaxEdits
    /\ primary[id] # <<>>
    /\ ~primary[id][1].locked
    /\ primary' = [primary EXCEPT ![id] = <<[primary[id][1] EXCEPT !.locked = TRUE]>>]
    /\ UNCHANGED <<appConfig, source, modVer, srvVer, freshUsed, store, fr, log, lastCall>>

----------------------------------------------------------------------------
(* One configured source calendar, trigger executions one at a time *)

Unconfigured ==
    /\ source = [c \in CalendarIds |-> [i \in EventIds |-> <<>>]]
    /\ modVer = [c \in CalendarIds |-> [i \in EventIds |-> 0]]
    /\ srvVer = [c \in CalendarIds |-> 0]
    /\ primary = [i \in PrimaryIds |-> <<>>]
    /\ freshUsed = 0
    /\ store = <<>>
    /\ fr = [r \in RunIds |-> IdleFrame]
    /\ log = [r \in RunIds |-> <<>>]
    /\ lastCall = NoCall

Init ==
    /\ appConfig = [c \in {"calA"} |-> Config(Undefined, Undefined)]
    /\ Unconfigured

Next ==
    \/ \E c \in CalendarIds : onCalendarUpdateEvent(MainRun, c)
    \/ syncAllEvents(MainRun)
    \/ removeAllEvents(MainRun)
    \/ ListOk(MainRun)
    \/ ListCursorInvalid(MainRun)
    \/ ListError(MainRun)
    \/ SyncEventCall(MainRun)
    \/ DeleteEventCall(MainRun)
    \/ EndPage(MainRun)
    \/ SetCursor(MainRun)
    \/ Exit(MainRun)
    \/ \E c \in CalendarIds, i \in EventIds, sh \in EventShapes : SourceEdit(c, i, sh)
    \/ \E i \in PrimaryIds : LockMirror(i)

Spec == Init /\ [][Next]_vars

----------------------------------------------------------------------------
(* Two configured source calendars: the bulk entry points loop over both *)

InitBulk ==
    /\ appConfig = [c \in CalendarIds |-> Config(Undefined, Undefined)]
    /\ Unconfigured

NextBulk ==
    \/ Next
    \/ NextCalendar(MainRun)

SpecBulk == InitBulk /\ [][NextBulk]_vars

----------------------------------------------------------------------------
(* The installed triggers only: installTriggers registers onCalendarUpdateEvent for
   every configured calendar and nothing else, so update notifications are the runs
   that keep coming.  An execution that is under way goes on, the gateway does not
   fail for ever, and notifications keep being delivered. *)

NextTriggered ==
    \/ \E c \in CalendarIds : onCalendarUpdateEvent(MainRun, c)
    \/ ListOk(MainRun)
    \/ ListCursorInvalid(MainRun)
    \/ ListError(MainRun)
    \/ SyncEventCall(MainRun)
    \/ EndPage(MainRun)
    \/ SetCursor(MainRun)
    \/ Exit(MainRun)
    \/ \E c \in CalendarIds, i \in EventIds, sh \in EventShapes : SourceEdit(c, i, sh)

\* the identifier of the event the forEach of r is about to pass on, NoId if none
AboutToDispatch(r) ==
    IF fr[r].pc = "dispatch" /\ fr[r].idx <= Len(Filtered(fr[r].response[1]))
    THEN Filtered(fr[r].response[1])[fr[r].idx].id
    ELSE NoId

\* No page is refused for ever and no event's calls fail for ever.
FairTriggered ==
    /\ SF_vars(\E c \in CalendarIds : onCalendarUpdateEvent(MainRun, c))
    /\ \A p \in {<<>>} \cup {<<k>> : k \in 2..Len(EventOrder)} :
          SF_vars(fr[MainRun].pageToken = p /\ ListOk(MainRun))
    /\ \A i \in EventIds :
          SF_vars(AboutToDispatch(MainRun) = i /\ Dispatch(MainRun, TRUE, TRUE))
    /\ WF_vars(EndPage(MainRun))
    /\ WF_vars(SetCursor(MainRun))
    /\ WF_vars(Exit(MainRun))

SpecTriggered == Init /\ [][NextTriggered]_vars /\ FairTriggered

----------------------------------------------------------------------------
(* No serialisation: the script takes no lock, so an update notification (execution
   1) and a bulk full synchronisation (execution 2) of the same calendar may overlap,
   and the calendar may be edited while they run.  The frame field raced records
   that an execution overlapped with another one. *)

InvokeUnserialized(r, frame, calendarId, callback, fullSync) ==
    /\ fr[r].pc = "idle"
    /\ calendarId \in DOMAIN appConfig
    /\ fr' = [q \in RunIds |->
                 IF q = r
                 THEN BeginFetch([frame EXCEPT !.raced = ~Quiet],
                                 calendarId, callback, fullSync, store)
                 ELSE [fr[q] EXCEPT !.raced = @ \/ fr[q].pc # "idle"]]
    /\ log' = [log EXCEPT ![r] = <<>>]
    /\ UNCHANGED <<appConfig, source, modVer, srvVer, primary, freshUsed, store, lastCall>>

UpdateRun == 1
BulkRun == 2

NextRace ==
    \/ InvokeUnserialized(UpdateRun, [IdleFrame EXCEPT !.entry = "onCalendarUpdateEvent"],
                          "calA", "syncEvent", FALSE)
    \/ InvokeUnserialized(BulkRun,
                          [IdleFrame EXCEPT !.entry = "syncAllEvents",
                                            !.todo = Tail(ConfiguredCalendars)],
                          Head(ConfiguredCalendars), "syncEvent", TRUE)
    \/ ListCursorInvalid(UpdateRun)
    \/ \E r \in RunIds :
          \/ ListOk(r)
          \/ Dispatch(r, TRUE, TRUE)
          \/ EndPage(r)
          \/ SetCursor(r)
          \/ Exit(r)
    \/ \E i \in EventIds :
          EditEvent("calA", i, Shape("confirmed", "opaque", <<"self">>, <<>>, "default"))

SpecRace == Init /\ [][NextRace]_vars

----------------------------------------------------------------------------
(* An aborted execution and the next one: execution 1 is any update notification or
   bulk synchronisation, with gateway failures; when it has thrown, the same entry
   point runs again as execution 2, before the calendar changes, and every gateway
   call of it is served.  The frame field snapshot keeps the primary calendar as it
   was when execution 1 began.  The calendar holds events of its owner. *)

AbortedRun == 1
NextRun == 2

\* the calendar's own events: confirmed, cancelled, out-of-office
OwnShapes == {sh \in EventShapes : sh.organizer = <<"self">>}

InvokeRecorded(r, frame, calendarId, callback, fullSync) ==
    /\ Quiet
    /\ calendarId \in DOMAIN appConfig
    /\ fr' = [fr EXCEPT ![r] = BeginFetch(
                 [frame EXCEPT !.snapshot = <<[primary |-> primary, freshUsed |-> freshUsed]>>],
                 calendarId, callback, fullSync, store)]
    /\ log' = [log EXCEPT ![r] = <<>>]
    /\ UNCHANGED <<appConfig, source, modVer, srvVer, primary, freshUsed, store, lastCall>>

\* the entry point of the aborted execution is invoked again
InvokeAgain ==
    /\ fr[AbortedRun].pc = "thrown"
    /\ fr[NextRun].pc = "idle"
    /\ fr' = [fr EXCEPT ![NextRun] = BeginFetch(
                 [IdleFrame EXCEPT !.entry = fr[AbortedRun].entry],
                 fr[AbortedRun].cal, fr[AbortedRun].callback,
                 fr[AbortedRun].entry # "onCalendarUpdateEvent", store)]
    /\ log' = [log EXCEPT ![NextRun] = <<>>]
    /\ UNCHANGED <<appConfig, source, modVer, srvVer, primary, freshUsed, store, lastCall>>

\* both executions are over
ExitBoth ==
    /\ fr[NextRun].pc = "returned"
    /\ fr' = [r \in RunIds |-> IdleFrame]
    /\ log' = [r \in RunIds |-> <<>>]
    /\ lastCall' = NoCall
    /\ UNCHANGED <<appConfig, source, modVer, srvVer, primary, freshUsed, store>>

NextResume ==
    \/ InvokeRecorded(AbortedRun, [IdleFrame EXCEPT !.entry = "onCalendarUpdateEvent"],
                      "calA", "syncEvent", FALSE)
    \/ InvokeRecorded(AbortedRun, [IdleFrame EXCEPT !.entry = "syncAllEvents",
                                                    !.todo = Tail(ConfiguredCalendars)],
                      Head(ConfiguredCalendars), "syncEvent", TRUE)
    \/ ListOk(AbortedRun)
    \/ ListCursorInvalid(AbortedRun)
    \/ ListError(AbortedRun)
    \/ SyncEventCall(AbortedRun)
    \/ EndPage(AbortedRun)
    \/ SetCursor(AbortedRun)
    \/ fr[NextRun].pc = "idle" /\ Exit(AbortedRun)
    \/ InvokeAgain
    \/ ListOk(NextRun)
    \/ Dispatch(NextRun, TRUE, TRUE)
    \/ EndPage(NextRun)
    \/ SetCursor(NextRun)
    \/ ExitBoth
    \/ \E c \in CalendarIds, i \in EventIds, sh \in OwnShapes : SourceEdit(c, i, sh)
    \/ \E i \in PrimaryIds : LockMirror(i)

SpecResume == Init /\ [][NextResume]_vars

----------------------------------------------------------------------------
(* Every event and configuration: the calendar holds one event of any combination of
   status, transparency, organizer and attendees, the primary calendar holds nothing
   or a mirror of an earlier synchronisation, and the calendar is configured with any
   combination of titlePrefix and summary *)

AttendeeLists ==
    { <<>>,
      << <<>> >>,
      << <<Attendee(TRUE, "accepted")>> >>,
      << <<Attendee(TRUE, "declined")>> >>,
      << <<Attendee(FALSE, "accepted")>> >>,
      << <<Attendee(FALSE, "accepted"), Attendee(TRUE, "accepted")>> >>,
      << <<Attendee(FALSE, "accepted"), Attendee(TRUE, "tentative")>> >> }

AllShapes ==
    { Shape(st, tr, org, att, "default") :
          st \in {"confirmed", "cancelled"}, tr \in {"opaque", "transparent"},
          org \in {<<>>, <<"self">>, <<"other">>}, att \in AttendeeLists }

TitlePrefixes == {Undefined, Null, Str(<<>>), Str(<<"pre">>)}

Summaries == {Undefined, Str(<<>>), Str(<<"lit">>)}

\* what the primary calendar may hold for the event: nothing, or the mirror an
\* earlier synchronisation imported, since then removed or locked by the provider
EarlierMirrors ==
    LET was == Stored(1, copyEvent(MkEvent("calA", 1, Shape("confirmed", "opaque",
                         <<"self">>, <<>>, "default"), 0), "calA"), FALSE)
    IN { <<>>, <<was>>, <<[was EXCEPT !.status = "cancelled"]>>,
         <<[was EXCEPT !.locked = TRUE]>> }

InitInputs ==
    /\ \E tp \in TitlePrefixes, sm \in Summaries :
          appConfig = [c \in {"calA"} |-> Config(tp, sm)]
    /\ \E sh \in AllShapes :
          source = [c \in CalendarIds |-> [i \in EventIds |->
                       IF c = "calA" /\ i = 1 THEN <<MkEvent(c, i, sh, 0)>> ELSE <<>>]]
    /\ modVer = [c \in CalendarIds |-> [i \in EventIds |->
                     IF c = "calA" /\ i = 1 THEN 1 ELSE 0]]
    /\ srvVer = [c \in CalendarIds |-> IF c = "calA" THEN 1 ELSE 0]
    /\ \E mirror \in EarlierMirrors :
          primary = [i \in PrimaryIds |-> IF i = 1 THEN mirror ELSE <<>>]
    /\ freshUsed = 0
    /\ store = <<>>
    /\ fr = [r \in RunIds |-> IdleFrame]
    /\ log = [r \in RunIds |-> <<>>]
    /\ lastCall = NoCall

NextInputs ==
    \/ onCalendarUpdateEvent(MainRun, "calA")
    \/ syncAllEvents(MainRun)
    \/ ListOk(MainRun)
    \/ SyncEventCall(MainRun)
    \/ EndPage(MainRun)
    \/ SetCursor(MainRun)
    \/ Exit(MainRun)

SpecInputs == InitInputs /\ [][NextInputs]_vars

----------------------------------------------------------------------------
(* Reading the call log *)

Ops(r, op) == {i \in 1..Len(log[r]) : log[r][i].op = op}

\* index of the last cursor-invalid restart of r's fetchEvents call, 0 if there is none
LastRestart(r) ==
    IF Ops(r, "deleteProperty") = {} THEN 0
    ELSE CHOOSE i \in Ops(r, "deleteProperty") : \A j \in Ops(r, "deleteProperty") : j <= i

\* the callback invocations of the page sequence that is under way or completed
CallbacksOfSequence(r) ==
    SelectSeq(SubSeq(log[r], LastRestart(r) + 1, Len(log[r])), LAMBDA e : e.op = "callback")

\* what the gateway holds for the listing r is making, out-of-office blocks left out
Qualifying(r) ==
    SelectSeq(ListResult(fr[r].cal, fr[r].syncToken), LAMBDA e : e.eventType # "outOfOffice")

----------------------------------------------------------------------------
(* Claims *)

\* C1: the cursor is written (setProperty) only once the last page of the page-token
\* chain has been listed and every event of the listing that is not an out-of-office
\* block has been passed to the callback; nothing is listed or dispatched after it.
C1_CursorWrittenAfterLastEvent ==
    \A r \in RunIds : \A i \in Ops(r, "setProperty") :
        /\ i = Len(log[r])
        /\ fr[r].response # <<>> /\ fr[r].response[1].nextPageToken = <<>>
        /\ Len(CallbacksOfSequence(r)) = Len(Qualifying(r))
        /\ \A k \in 1..Len(Qualifying(r)) :
              /\ CallbacksOfSequence(r)[k].id = Qualifying(r)[k].id
              /\ CallbacksOfSequence(r)[k].res = "ok"

\* C1 witness: a cursor write after a listing of two pages with one event each.
C1_Witness ==
    /\ Ops(MainRun, "setProperty") # {}
    /\ Len(CallbacksOfSequence(MainRun)) = 2
    /\ Cardinality({i \in Ops(MainRun, "list") : i > LastRestart(MainRun)}) = 2

\* C2: a fetchEvents call that returns has made exactly one setProperty, of the
\* nextSyncToken of the last page response, and the store holds it; a call that
\* throws has made none.
C2_OneCursorSetPerReturn ==
    \A r \in RunIds :
        /\ fr[r].pc = "returned" =>
              /\ Cardinality(Ops(r, "setProperty")) = 1
              /\ \A i \in Ops(r, "setProperty") :
                    /\ fr[r].response[1].nextSyncToken = <<log[r][i].id>>
                    /\ getProperty(store, fr[r].cal) = <<log[r][i].id>>
        /\ fr[r].pc = "thrown" => Ops(r, "setProperty") = {}

\* C2 witness: a call that returned after a cursor-invalid restart.
C2_Witness ==
    /\ fr[MainRun].pc = "returned"
    /\ Ops(MainRun, "deleteProperty") # {}
    /\ Ops(MainRun, "callback") # {}

IsListStep(r, res) ==
    /\ Len(log'[r]) > Len(log[r])
    /\ \E i \in (Len(log[r]) + 1)..Len(log'[r]) : log'[r][i].op = "list" /\ log'[r][i].res = res

\* C3: when Events.list fails with another error than cursor-invalid, fetchEvents
\* throws, the store and the primary calendar are as they were when the call was
\* issued, and nothing is listed, dispatched or stored afterwards.
C3_ListErrorAborts ==
    /\ [][\A r \in RunIds : IsListStep(r, "error") =>
             /\ fr'[r].pc = "thrown"
             /\ store' = store
             /\ primary' = primary
             /\ log'[r] = Append(log[r], log'[r][Len(log'[r])])]_vars
    /\ [][\A r \in RunIds : fr[r].pc = "thrown" =>
             /\ store' = store
             /\ primary' = primary
             /\ \/ fr'[r].pc = "thrown" /\ log'[r] = log[r]
                \/ fr'[r].pc = "idle"]_vars

\* C3 witness: the listing failed on the second page of an incremental run, the
\* first page's event dispatched, the previous cursor still stored.
C3_Witness ==
    /\ fr[MainRun].pc = "thrown"
    /\ log[MainRun] # <<>>
    /\ log[MainRun][Len(log[MainRun])].op = "list"
    /\ log[MainRun][Len(log[MainRun])].res = "error"
    /\ log[MainRun][Len(log[MainRun])].inc
    /\ Ops(MainRun, "callback") # {}
    /\ getProperty(store, fr[MainRun].cal) = fr[MainRun].syncToken

\* C4: after a cursor-invalid answer to an incremental listing the stored cursor
\* is deleted before any further list call, the listing restarts at the first page
\* without sync token, the store holds no cursor until the restart completes, and
\* then holds the nextSyncToken of the restarted full listing.
C4_InvalidCursorRestartsFull ==
    \A r \in RunIds : \A i \in Ops(r, "list") :
        (log[r][i].res = "invalid" /\ log[r][i].inc) =>
            /\ i < Len(log[r]) /\ log[r][i + 1].op = "deleteProperty"
            /\ \A j \in Ops(r, "list") : j > i =>
                  /\ ~log[r][j].inc
                  /\ (j = i + 2 => log[r][j].id = 1)
            /\ fr[r].fullSync /\ fr[r].syncToken = <<>>
            /\ Ops(r, "setProperty") = {} => getProperty(store, fr[r].cal) = <<>>
            /\ fr[r].pc = "returned" =>
                  /\ fr[r].response[1].nextSyncToken = <<srvVer[fr[r].cal]>>
                  /\ getProperty(store, fr[r].cal) = fr[r].response[1].nextSyncToken

\* C4 witness: an incremental run answered cursor-invalid on its second page whose
\* restart completed.
C4_Witness ==
    /\ fr[MainRun].pc = "returned"
    /\ \E i \in Ops(MainRun, "list") :
          /\ log[MainRun][i].res = "invalid" /\ log[MainRun][i].inc
          /\ log[MainRun][i].id > 1

\* the fetchEvents call of r began as an incremental listing
BeganIncremental(r) == log[r] # <<>> /\ log[r][1].op = "list" /\ log[r][1].inc

\* C5 (as claimed): within one top-level call of fetchEvents that began as an
\* incremental run the cursor-invalid restart happens at most once.
C5_AtMostOneRestart ==
    \A r \in RunIds : BeganIncremental(r) =>
        Cardinality(Ops(r, "deleteProperty")) <= 1 /\ fr[r].depth <= 1

\* C6 (as claimed): over one top-level call of fetchEvents that began as an
\* incremental run, restart included, each event identifier is passed to the
\* callback at most once.
C6_NoDuplicateDispatch ==
    \A r \in RunIds : BeganIncremental(r) =>
        \A i, j \in Ops(r, "callback") : log[r][i].id = log[r][j].id => i = j


----------------------------------------------------------------------------
(* Reading the last callback invocation *)

\* the event the last callback was invoked with, and its calendar
TheEvent == lastCall.event[1]
TheCalendar == lastCall.cal
\* the primary calendar's entry for that event before and after the invocation
MirrorBefore == lastCall.before[1][TheEvent.id]
MirrorAfter == primary[TheEvent.id]

IsLive(mirror) == mirror # <<>> /\ mirror[1].status # "cancelled"
IsLocked(mirror) == mirror # <<>> /\ mirror[1].locked

SyncEventReturned == lastCall.callback = "syncEvent" /\ ~lastCall.threw
AllCallsServed == \A k \in 1..Len(lastCall.calls) : lastCall.calls[k].ok
Issued(op) == \E k \in 1..Len(lastCall.calls) : lastCall.calls[k].op = op

\* the disposition rules of the design: invitation, self attendee, mirror wanted
IsInvite(cal, ev) == ev.organizer # <<>> /\ ev.organizer[1] # cal
SelfAccepted(ev) ==
    /\ ev.attendees # <<>>
    /\ \E k \in 1..Len(ev.attendees[1]) :
          ev.attendees[1][k].self /\ ev.attendees[1][k].responseStatus = "accepted"
WantsMirror(cal, ev) ==
    /\ ev.status # "cancelled"
    /\ ev.transparency # "transparent"
    /\ IsInvite(cal, ev) => SelfAccepted(ev)

\* the primary calendar entry is what one reconciliation of ev leaves behind
Reconciled(mirror, cal, ev) ==
    IF WantsMirror(cal, ev)
    THEN mirror # <<>> /\ mirror[1] = Stored(ev.id, copyEvent(ev, cal), mirror[1].locked)
    ELSE ~IsLive(mirror)

\* C7: the primary calendar holds at most one event per source event, stored under
\* the source event's identifier.
C7_OneMirrorPerSourceEvent ==
    /\ \A u \in EventIds :
          LET mirrors == {m \in PrimaryIds : primary[m] # <<>> /\ primary[m][1].iCalUID = u}
          IN /\ Cardinality(mirrors) <= 1
             /\ \A m \in mirrors : m = u /\ primary[m][1].id = u
    /\ \A m \in PrimaryIds : primary[m] # <<>> => primary[m][1].iCalUID \in EventIds

\* C7 witness: a mirror under the source identifier that was reconciled again.
C7_Witness ==
    /\ SyncEventReturned
    /\ Issued("update") /\ AllCallsServed
    /\ IsLive(MirrorAfter) /\ MirrorAfter[1].iCalUID = TheEvent.id

\* C8 (as claimed): reconciling an event whose reconciliation is already in place
\* leaves the primary calendar as it is and issues neither import nor update.
C8_SecondReconcileIssuesNothing ==
    (lastCall.callback = "syncEvent" /\ Reconciled(MirrorBefore, TheCalendar, TheEvent)) =>
        /\ primary = lastCall.before[1]
        /\ ~Issued("import") /\ ~Issued("update")

\* C8 (amended): one served reconciliation of an event leaves the mirror state
\* Reconciled; reconciling again from there leaves the primary calendar unchanged and
\* issues no import, but it does issue one update when a mirror is wanted and the
\* existing one is not locked, and nothing otherwise.
C8_SecondReconcileKeepsMirror ==
    /\ (SyncEventReturned /\ AllCallsServed /\ ~IsLocked(MirrorBefore)) =>
           Reconciled(MirrorAfter, TheCalendar, TheEvent)
    /\ (lastCall.callback = "syncEvent" /\ Reconciled(MirrorBefore, TheCalendar, TheEvent)) =>
           /\ primary = lastCall.before[1]
           /\ ~Issued("import")
           /\ IF WantsMirror(TheCalendar, TheEvent) /\ ~lastCall.threw /\ ~IsLocked(MirrorBefore)
              THEN /\ Len(lastCall.calls) = 1
                   /\ lastCall.calls[1].op = "update"
                   /\ lastCall.calls[1].id = TheEvent.id
              ELSE lastCall.calls = <<>>

\* C8 witness: a second reconciliation of an unchanged mirrored event, served.
C8_Witness ==
    /\ SyncEventReturned
    /\ Reconciled(MirrorBefore, TheCalendar, TheEvent)
    /\ WantsMirror(TheCalendar, TheEvent)
    /\ Issued("update") /\ AllCallsServed
    /\ primary = lastCall.before[1]

\* C9: for a cancelled source event whose lookup was answered, syncEvent issues
\* exactly one remove (and nothing else) when the mirror exists and is not cancelled,
\* and no write call at all when there is no mirror or it is cancelled already.
C9_CancelledEventDeletesOnce ==
    (SyncEventReturned /\ TheEvent.status = "cancelled") =>
        IF IsLive(MirrorBefore)
        THEN /\ Len(lastCall.calls) = 1
             /\ lastCall.calls[1].op = "remove"
             /\ lastCall.calls[1].id = TheEvent.id
        ELSE lastCall.calls = <<>>

\* C9 witness: a cancelled event whose live mirror was removed.
C9_Witness ==
    /\ SyncEventReturned /\ TheEvent.status = "cancelled"
    /\ IsLive(MirrorBefore)
    /\ Issued("remove") /\ AllCallsServed
    /\ ~IsLive(MirrorAfter)

\* C10 (as claimed): after a served reconciliation of an invitation the mirror is
\* present exactly when the self attendee has accepted.
C10_MirrorIffAccepted ==
    (SyncEventReturned /\ AllCallsServed /\ IsInvite(TheCalendar, TheEvent)) =>
        (IsLive(MirrorAfter) <=> SelfAccepted(TheEvent))

\* C10 (amended): after a served reconciliation of an invitation that is neither
\* cancelled nor transparent and whose existing mirror, if any, is not locked, the
\* mirror is present exactly when the self attendee has accepted.
C10_OpaqueInvitationMirrorIffAccepted ==
    (/\ SyncEventReturned /\ AllCallsServed
     /\ IsInvite(TheCalendar, TheEvent)
     /\ TheEvent.status # "cancelled" /\ TheEvent.transparency # "transparent"
     /\ ~IsLocked(MirrorBefore)) =>
        (IsLive(MirrorAfter) <=> SelfAccepted(TheEvent))

\* C10 witness: an invitation that is no longer accepted, its mirror of an earlier
\* run removed.
C10_Witness ==
    /\ SyncEventReturned /\ AllCallsServed
    /\ IsInvite(TheCalendar, TheEvent) /\ ~SelfAccepted(TheEvent)
    /\ TheEvent.sequence > 0
    /\ IsLive(MirrorBefore) /\ Issued("remove")
    /\ ~IsLive(MirrorAfter)

\* C11: for a source event that wants a mirror (not cancelled, not transparent, not
\* an invitation or accepted) and whose lookup answers not found, syncEvent issues
\* exactly one import and no update or remove; the imported resource has reminders
\* {useDefault: false, overrides: []} and the source event's identifier, and when the
\* import is served the primary calendar holds it under that identifier.
C11_NewEventImportedOnce ==
    (SyncEventReturned /\ WantsMirror(TheCalendar, TheEvent) /\ MirrorBefore = <<>>) =>
        /\ Len(lastCall.calls) = 1
        /\ lastCall.calls[1].op = "import"
        /\ lastCall.calls[1].id = TheEvent.id
        /\ lastCall.calls[1].resource[1].id = TheEvent.id
        /\ lastCall.calls[1].resource[1].reminders.useDefault = FALSE
        /\ lastCall.calls[1].resource[1].reminders.overrides = <<>>
        /\ lastCall.calls[1].ok =>
              /\ IsLive(MirrorAfter) /\ MirrorAfter[1].id = TheEvent.id
              /\ MirrorAfter[1].reminders = [useDefault |-> FALSE, overrides |-> <<>>]
              /\ \A m \in PrimaryIds \ {TheEvent.id} : primary[m] = lastCall.before[1][m]

\* C11 witness: a brand-new accepted invitation, imported.
C11_Witness ==
    /\ SyncEventReturned
    /\ IsInvite(TheCalendar, TheEvent) /\ SelfAccepted(TheEvent)
    /\ WantsMirror(TheCalendar, TheEvent) /\ MirrorBefore = <<>>
    /\ Issued("import") /\ AllCallsServed
    /\ IsLive(MirrorAfter)

\* the source events of calendar cal that are out-of-office blocks
OutOfOffice(cal) ==
    {i \in EventIds : source[cal][i] # <<>> /\ source[cal][i][1].eventType = "outOfOffice"}

\* C12: on every entry point the callback is never invoked with an out-of-office
\* event, and no call on the primary calendar carries the identifier of an event
\* that is an out-of-office block.
C12_OutOfOfficeNeverDispatched ==
    /\ lastCall.event # <<>> =>
          /\ TheEvent.eventType # "outOfOffice"
          /\ TheEvent.id \notin OutOfOffice(TheCalendar)
          /\ \A k \in 1..Len(lastCall.calls) : lastCall.calls[k].id \notin OutOfOffice(TheCalendar)
    /\ \A r \in RunIds : \A i \in Ops(r, "callback") : log[r][i].id \notin OutOfOffice(fr[r].cal)

\* C12 witness: a teardown run that returned, over a listing that holds an
\* out-of-office block and another event, with one callback invocation.
C12_Witness ==
    /\ fr[MainRun].entry = "removeAllEvents"
    /\ fr[MainRun].pc = "returned"
    /\ OutOfOffice(fr[MainRun].cal) # {}
    /\ Len(ListResult(fr[MainRun].cal, fr[MainRun].syncToken)) = 2
    /\ Cardinality(Ops(MainRun, "callback")) = 1

\* the last entry of r's call log
LastEntry(r) == log[r][Len(log[r])]

\* C13: a failed import, update or remove call does not make syncEvent throw; the
\* run is not aborted by it, every event of the listing is dispatched, and the run
\* ends by storing the listing's nextSyncToken.
C13_FailedWriteDoesNotAbort ==
    /\ (lastCall.callback = "syncEvent" /\ ~AllCallsServed) => ~lastCall.threw
    /\ \A r \in RunIds : \A i \in Ops(r, "callback") :
          (fr[r].callback = "syncEvent" /\ log[r][i].failed) =>
              /\ log[r][i].res = "ok"
              /\ fr[r].pc = "thrown" => i < Len(log[r])
              /\ (i = Len(log[r])) => fr[r].pc \in {"dispatch", "list", "set"}
              /\ fr[r].pc \in {"set", "returned"} =>
                    /\ Len(CallbacksOfSequence(r)) = Len(Qualifying(r))
                    /\ \A k \in 1..Len(Qualifying(r)) :
                          CallbacksOfSequence(r)[k].id = Qualifying(r)[k].id
              /\ fr[r].pc = "returned" =>
                    /\ LastEntry(r).op = "setProperty"
                    /\ getProperty(store, fr[r].cal) = fr[r].response[1].nextSyncToken

\* C13 witness: a run that returned after a write call failed for the event of its
\* first page and the event of its second page was dispatched.
C13_Witness ==
    /\ fr[MainRun].callback = "syncEvent"
    /\ fr[MainRun].pc = "returned"
    /\ \E i, j \in Ops(MainRun, "callback") : \E l \in Ops(MainRun, "list") :
          /\ i < l /\ l < j
          /\ log[MainRun][i].failed

\* C15: when a mirror is wanted and the mirror read from the primary calendar is
\* locked, syncEvent issues no call, leaves the primary calendar alone and returns
\* normally, and the run goes on with the next event or the end of the page.
C15_LockedMirrorSkipped ==
    (/\ lastCall.callback = "syncEvent"
     /\ IsLocked(lastCall.primaryCopy)
     /\ WantsMirror(TheCalendar, TheEvent)) =>
        /\ lastCall.calls = <<>>
        /\ ~lastCall.threw
        /\ primary = lastCall.before[1]
        /\ \A r \in RunIds :
              (log[r] # <<>> /\ LastEntry(r).op = "callback") =>
                  /\ LastEntry(r).res = "ok"
                  /\ fr[r].pc \in {"dispatch", "list", "set"}

\* C15 witness: a run that skipped the locked mirror of a wanted event and returned.
C15_Witness ==
    /\ lastCall.callback = "syncEvent"
    /\ IsLocked(lastCall.primaryCopy)
    /\ IsLive(lastCall.primaryCopy)
    /\ WantsMirror(TheCalendar, TheEvent)
    /\ fr[MainRun].pc = "returned"

\* C16 (as claimed): the resource passed to update carries the sequence number of
\* the mirror read from the primary calendar.
C16_UpdateCarriesMirrorSequence ==
    SyncEventReturned =>
        \A k \in 1..Len(lastCall.calls) :
            lastCall.calls[k].op = "update" =>
                lastCall.calls[k].resource[1].sequence = lastCall.primaryCopy[1].sequence

\* the calls of the last callback invocation are as the disposition Mirror requires
ActedToMirror ==
    IF lastCall.primaryCopy = <<>>
    THEN Len(lastCall.calls) = 1 /\ lastCall.calls[1].op = "import"
    ELSE IF IsLocked(lastCall.primaryCopy)
    THEN lastCall.calls = <<>>
    ELSE Len(lastCall.calls) = 1 /\ lastCall.calls[1].op = "update"

\* the calls of the last callback invocation are as the disposition Suppress requires
ActedToSuppress ==
    IF IsLive(lastCall.primaryCopy)
    THEN Len(lastCall.calls) = 1 /\ lastCall.calls[1].op = "remove"
    ELSE lastCall.calls = <<>>

\* the self attendee is missing or has not accepted
SelfMissingOrNotAccepted(ev) ==
    \/ ev.attendees = <<>>
    \/ \A k \in 1..Len(ev.attendees[1]) :
          ev.attendees[1][k].self => ev.attendees[1][k].responseStatus # "accepted"

\* C17: whatever the primary calendar holds for the event, syncEvent acts on the
\* disposition Suppress exactly when the event is cancelled, or is an invitation
\* (organizer other than the source calendar) whose self attendee is missing or has
\* not accepted, or is transparent, and on the disposition Mirror in every other case.
C17_DispositionFromEventFields ==
    SyncEventReturned =>
        IF \/ TheEvent.status = "cancelled"
           \/ IsInvite(TheCalendar, TheEvent) /\ SelfMissingOrNotAccepted(TheEvent)
           \/ TheEvent.transparency = "transparent"
        THEN ActedToSuppress
        ELSE ActedToMirror

\* C17 witness: an opaque, confirmed invitation whose attendees hold no self
\* attendee, its live mirror removed.
C17_Witness ==
    /\ SyncEventReturned
    /\ TheEvent.status = "confirmed" /\ TheEvent.transparency = "opaque"
    /\ IsInvite(TheCalendar, TheEvent)
    /\ TheEvent.attendees # <<>> /\ TheEvent.attendees[1] # <<>>
    /\ \A k \in 1..Len(TheEvent.attendees[1]) : ~TheEvent.attendees[1][k].self
    /\ IsLive(lastCall.primaryCopy)
    /\ Issued("remove") /\ AllCallsServed

\* the mirror summary by strict precedence: a summary that is a string, then the
\* unset titlePrefix, then the null titlePrefix, then the titlePrefix
PrecedenceSummary(config, calendarId, eventSummary) ==
    IF config.summary.kind = "string" THEN config.summary.value
    ELSE IF config.titlePrefix.kind = "undefined" THEN <<"[", calendarId, "] ">> \o eventSummary
    ELSE IF config.titlePrefix.kind = "null" THEN eventSummary
    ELSE config.titlePrefix.value \o <<" ">> \o eventSummary

\* C18 (as claimed): the summary of every resource syncEvent imports or updates is
\* the one strict precedence gives, for every configuration.
C18_SummaryPrecedence ==
    SyncEventReturned =>
        \A k \in 1..Len(lastCall.calls) :
            lastCall.calls[k].op \in {"import", "update"} =>
                lastCall.calls[k].resource[1].summary =
                    PrecedenceSummary(appConfig[TheCalendar], TheCalendar, TheEvent.summary)

\* a write call of syncEvent for event i has just failed / event i is being reconciled
WriteFailedFor(i) ==
    /\ SyncEventReturned
    /\ TheEvent.id = i
    /\ ~AllCallsServed

DispatchedToSyncEvent(i) ==
    /\ lastCall.callback = "syncEvent"
    /\ TheEvent.id = i

\* C14 (as claimed): once a write call for an event has failed and the source
\* calendar changes no more, the execution ends and a later execution passes the
\* event to syncEvent again.
C14_FailedWriteRetried ==
    \A i \in EventIds :
        [](WriteFailedFor(i) /\ TotalEdits = MaxEdits =>
               <>(lastCall = NoCall /\ <>DispatchedToSyncEvent(i)))

\* the store holds an older cursor than the one execution r wrote
StaleCursor(r) ==
    /\ fr[r].pc = "returned"
    /\ LastEntry(r).op = "setProperty"
    /\ getProperty(store, fr[r].cal) # <<>>
    /\ store[fr[r].cal] < LastEntry(r).id

\* the store holds a cursor although r deleted it and has not written one yet
WrittenAfterDelete(r) ==
    /\ Ops(r, "deleteProperty") # {}
    /\ Ops(r, "setProperty") = {}
    /\ getProperty(store, fr[r].cal) # <<>>

\* C19: an execution finds the store as it left it itself (after its setProperty
\* the cursor it wrote, after its deleteProperty no cursor) unless it overlapped with
\* another execution for the calendar; so serialized executions read the cursor of
\* the previous successful one, and the store holds an older cursor than one
\* written, or a cursor written after a delete, only when executions interleave.
C19_CursorRaceNeedsOverlap ==
    \A r \in RunIds :
        /\ (StaleCursor(r) \/ WrittenAfterDelete(r)) => fr[r].raced
        /\ ~fr[r].raced =>
              /\ fr[r].pc = "returned" =>
                    getProperty(store, fr[r].cal) = <<LastEntry(r).id>>
              /\ (Ops(r, "deleteProperty") # {} /\ Ops(r, "setProperty") = {}) =>
                    getProperty(store, fr[r].cal) = <<>>

\* C19 witness: the bulk run wrote its cursor, and the update-notification run,
\* whose listing finished first, has overwritten it with its older one.
C19_Witness ==
    /\ StaleCursor(BulkRun)
    /\ fr[UpdateRun].pc = "returned"
    /\ fr[UpdateRun].entry = "onCalendarUpdateEvent"
    /\ getProperty(store, "calA") = <<LastEntry(UpdateRun).id>>

\* the other interleaving: the bulk run wrote a cursor after the update-notification
\* run deleted it and before that run's restart completed
C19_WriteAfterDeleteReached ==
    /\ WrittenAfterDelete(UpdateRun)
    /\ fr[BulkRun].pc = "returned"

RECURSIVE UninterruptedRun(_, _, _, _)
\* the primary calendar a run leaves that reconciles the events in turn, every
\* gateway call served
UninterruptedRun(prim, used, calendarId, events) ==
    IF events = <<>> THEN prim
    ELSE LET out == syncEvent(calendarId, Head(events), prim, used, TRUE, TRUE)
         IN UninterruptedRun(out.primary, out.freshUsed, calendarId, Tail(events))

----------------------------------------------------------------------------
(* The calendar each call is issued on *)

\* the calendars the last callback looked an event up on and wrote to
CalledCalendars ==
    {lastCall.lookup[k].calendar : k \in DOMAIN lastCall.lookup}
        \cup {lastCall.calls[k].calendar : k \in DOMAIN lastCall.calls}

\* C21: every get, import, update and remove that syncEvent and deleteEvent issue is
\* issued on the primary calendar, which is not a configured source calendar, and no
\* step of an execution changes a source calendar: a source calendar changes only
\* by its owner's edits, so executions do nothing but list it.
C21_WritesTargetPrimary ==
    /\ [](CalledCalendars \subseteq {primaryCalId} \ DOMAIN appConfig)
    /\ [][srvVer' = srvVer => source' = source]_vars

\* a served update of a mirror, with the source event as it was listed
C21_Witness ==
    /\ lastCall.callback = "syncEvent"
    /\ Issued("update")
    /\ AllCallsServed
    /\ lastCall.lookup # <<>>
    /\ source[TheCalendar][TheEvent.id] = <<TheEvent>>

----------------------------------------------------------------------------
(* A failed lookup *)

\* Events.get of the last syncEvent failed with another error than 'Not Found'
LookupFailed == lastCall.lookup # <<>> /\ ~lastCall.lookup[1].ok

\* execution r ended in the exception of its last callback, with no cursor written
AbortedByCallback(r) ==
    /\ fr[r].pc = "thrown"
    /\ LastEntry(r).op = "callback" /\ LastEntry(r).res = "threw"
    /\ Ops(r, "setProperty") = {}
    /\ Ops(r, "deleteProperty") # {} => getProperty(store, fr[r].cal) = <<>>
    /\ (BeganIncremental(r) /\ Ops(r, "deleteProperty") = {}) =>
           getProperty(store, fr[r].cal) = fr[r].syncToken

\* C22: when the lookup of syncEvent fails with another error than 'Not Found',
\* syncEvent throws and has issued no import, update or remove, the primary calendar
\* is as it was, the execution ends with that exception, the throwing callback is
\* the last thing it did, and it has stored no cursor: the store holds what it held
\* when the listing began.
C22_LookupFailureAborts ==
    /\ LookupFailed =>
          /\ lastCall.threw
          /\ lastCall.calls = <<>>
          /\ primary = lastCall.before[1]
          /\ \E r \in RunIds : AbortedByCallback(r) /\ LastEntry(r).id = TheEvent.id
    /\ \A r \in RunIds : \A i \in Ops(r, "callback") :
          log[r][i].res = "threw" => i = Len(log[r]) /\ AbortedByCallback(r)

\* the lookup failed for the first event of a listing of two events, in an
\* incremental run whose cursor stays in the store
C22_Witness ==
    /\ LookupFailed
    /\ \E r \in RunIds :
          /\ fr[r].pc = "thrown"
          /\ BeganIncremental(r)
          /\ Len(Filtered(fr[r].response[1])) > fr[r].idx
          /\ getProperty(store, fr[r].cal) # <<>>

----------------------------------------------------------------------------
(* The remains of a deleted mirror *)

\* the lookup of the last syncEvent returned a cancelled event and the source event
\* is one to mirror
TombstoneToMirror ==
    /\ SyncEventReturned
    /\ lastCall.primaryCopy # <<>>
    /\ lastCall.primaryCopy[1].status = "cancelled"
    /\ WantsMirror(TheCalendar, TheEvent)

\* exactly one call, an update of the event the lookup returned
OneUpdateOfCopy ==
    /\ Len(lastCall.calls) = 1
    /\ lastCall.calls[1].op = "update"
    /\ lastCall.calls[1].id = lastCall.primaryCopy[1].id

\* import is issued only when the lookup was served and found nothing
ImportOnlyWhenNotFound ==
    Issued("import") =>
        /\ lastCall.lookup # <<>> /\ lastCall.lookup[1].ok
        /\ lastCall.primaryCopy = <<>>
        /\ MirrorBefore = <<>>

\* C23 (as claimed): when the lookup returns a cancelled event and the source event
\* is one to mirror, syncEvent issues an update of that event and no import; import
\* is issued only when the lookup reports not found.
C23_TombstoneUpdated ==
    /\ TombstoneToMirror => OneUpdateOfCopy
    /\ ImportOnlyWhenNotFound

\* C23: when the lookup returns a cancelled event and the source event is one to
\* mirror, syncEvent issues no import; it issues one update of that event unless the
\* event is locked, and no call at all when it is locked.  Import is issued only
\* when the lookup reports not found.
C23_TombstoneUpdatedUnlessLocked ==
    /\ TombstoneToMirror =>
          IF lastCall.primaryCopy[1].locked THEN lastCall.calls = <<>>
          ELSE OneUpdateOfCopy
    /\ ImportOnlyWhenNotFound

\* a cancelled mirror came back to life by a served update
C23_Witness ==
    /\ TombstoneToMirror
    /\ OneUpdateOfCopy
    /\ AllCallsServed
    /\ IsLive(MirrorAfter)

----------------------------------------------------------------------------
(* Two configured source calendars that hold events under the same identifiers:
   update notifications for either calendar, syncAllEvents and removeAllEvents over
   both, with a gateway that serves every listing and serves or fails the lookups
   and the writes. *)

NextShared ==
    \/ \E c \in CalendarIds : onCalendarUpdateEvent(MainRun, c)
    \/ syncAllEvents(MainRun)
    \/ removeAllEvents(MainRun)
    \/ NextCalendar(MainRun)
    \/ ListOk(MainRun)
    \/ SyncEventCall(MainRun)
    \/ DeleteEventCall(MainRun)
    \/ EndPage(MainRun)
    \/ SetCursor(MainRun)
    \/ Exit(MainRun)
    \/ \E c \in CalendarIds, i \in EventIds, sh \in EventShapes : SourceEdit(c, i, sh)

SpecShared == InitBulk /\ [][NextShared]_vars

----------------------------------------------------------------------------
(* One identifier in two source calendars *)

\* every configured calendar holds an event with identifier i
SharedId(i) == \A c \in DOMAIN appConfig : source[c][i] # <<>>

\* the mirror carries the source title of an event of calendar c
CreatedFrom(mirror, c) ==
    /\ mirror # <<>>
    /\ mirror[1].sourceTitle = <<"[", c, "] ">> \o <<"title">>

\* C24: when both configured calendars hold an event with the same identifier, the
\* primary calendar holds at most one event for it, and a served reconciliation of
\* the identifier for one calendar decides about it whatever the other calendar
\* holds: afterwards the mirror is the copy of that calendar's event when it is one
\* to mirror, and there is no live mirror when it is one to suppress, also when the
\* mirror was created from the other calendar's event.
C24_SharedIdentifierLastWins ==
    /\ \A i \in EventIds : SharedId(i) =>
          Cardinality({m \in PrimaryIds : primary[m] # <<>> /\ primary[m][1].iCalUID = i}) <= 1
    /\ (SyncEventReturned /\ SharedId(TheEvent.id) /\ AllCallsServed
            /\ ~IsLocked(MirrorBefore)) =>
          /\ Reconciled(MirrorAfter, TheCalendar, TheEvent)
          /\ WantsMirror(TheCalendar, TheEvent) => CreatedFrom(MirrorAfter, TheCalendar)
          /\ (~WantsMirror(TheCalendar, TheEvent) /\ IsLive(MirrorBefore)) =>
                 Issued("remove") /\ ~IsLive(MirrorAfter)

\* the mirror that was created from one calendar's event is removed by the
\* reconciliation of the other calendar's event with the same identifier, while the
\* first calendar's event is still one to mirror
C24_Witness ==
    /\ SyncEventReturned /\ AllCallsServed
    /\ SharedId(TheEvent.id)
    /\ ~WantsMirror(TheCalendar, TheEvent)
    /\ \E c \in DOMAIN appConfig \ {TheCalendar} :
          /\ CreatedFrom(MirrorBefore, c)
          /\ WantsMirror(c, source[c][TheEvent.id][1])
    /\ IsLive(MirrorBefore)
    /\ Issued("remove")
    /\ ~IsLive(MirrorAfter)

----------------------------------------------------------------------------
(* removeAllEvents *)

Teardown(r) == fr[r].entry = "removeAllEvents"

\* the identifiers of calendar cal's events that are not out-of-office events
Removable(cal) == {i \in EventIds : source[cal][i] # <<>>} \ OutOfOffice(cal)

\* the configured calendars removeAllEvents is done with
Finished(r) ==
    {c \in DOMAIN appConfig : \A k \in DOMAIN fr[r].todo : fr[r].todo[k] # c}
        \ (IF fr[r].pc = "returned" THEN {} ELSE {fr[r].cal})

\* C25: removeAllEvents lists every configured calendar without a sync token, whatever
\* cursor is stored; deleteEvent issues exactly one remove on the primary calendar
\* under the listed event's identifier, with no lookup and whatever the event's
\* disposition, and never throws, so no failed remove ends the run; when the listing
\* of a calendar is through, every event of it that is not an out-of-office event was
\* passed on once and the calendar's stored cursor is the listing's nextSyncToken.
\* An update-notification run that starts from a stored cursor passes on only events
\* that changed after the cursor was issued, so it leaves the removed mirrors of
\* unchanged events alone.
C25_TeardownRemovesAndAdvancesCursor ==
    /\ \A r \in RunIds : Teardown(r) =>
          /\ fr[r].fullSync /\ fr[r].syncToken = <<>>
          /\ \A k \in Ops(r, "list") : ~log[r][k].inc
          /\ \A k \in Ops(r, "callback") : log[r][k].res = "ok"
          /\ fr[r].pc # "thrown"
          /\ fr[r].pc = "returned" =>
                /\ {log[r][k].id : k \in Ops(r, "callback")} = Removable(fr[r].cal)
                /\ Cardinality(Ops(r, "callback")) = Cardinality(Removable(fr[r].cal))
                /\ fr[r].response[1].nextSyncToken # <<>>
          /\ \A c \in Finished(r) : getProperty(store, c) = <<srvVer[c]>>
    /\ lastCall.callback = "deleteEvent" =>
          /\ ~lastCall.threw
          /\ lastCall.lookup = <<>>
          /\ Len(lastCall.calls) = 1
          /\ lastCall.calls[1].op = "remove"
          /\ lastCall.calls[1].id = TheEvent.id
          /\ lastCall.calls[1].calendar = primaryCalId
          /\ IF lastCall.calls[1].ok THEN ~IsLive(MirrorAfter)
             ELSE primary = lastCall.before[1]
    /\ \A r \in RunIds :
          (fr[r].entry = "onCalendarUpdateEvent" /\ fr[r].syncToken # <<>>) =>
              \A k \in Ops(r, "callback") :
                  modVer[fr[r].cal][log[r][k].id] > fr[r].syncToken[1]

\* removeAllEvents is through with both calendars: a remove failed on the way, a
\* removed mirror is left on the primary calendar, the event it mirrored is still one
\* to mirror, and both cursors are the calendars' latest
C25_Witness ==
    \E r \in RunIds :
        /\ Teardown(r) /\ RunOver(r) /\ fr[r].pc = "returned"
        /\ Finished(r) = CalendarIds
        /\ \E k \in Ops(r, "callback") : log[r][k].failed
        /\ \E c \in CalendarIds, i \in EventIds :
              /\ source[c][i] # <<>> /\ WantsMirror(c, source[c][i][1])
              /\ primary[i] # <<>> /\ ~IsLive(primary[i])
        /\ \A c \in CalendarIds : getProperty(store, c) = <<srvVer[c]>>

\* an update-notification run after the removal returned without passing on the
\* unchanged event whose mirror was removed: the mirror stays removed
C25_RemovedMirrorLeftAlone ==
    \E r \in RunIds :
        /\ fr[r].entry = "onCalendarUpdateEvent" /\ fr[r].pc = "returned"
        /\ fr[r].syncToken # <<>>
        /\ \E i \in EventIds :
              /\ source[fr[r].cal][i] # <<>> /\ WantsMirror(fr[r].cal, source[fr[r].cal][i][1])
              /\ modVer[fr[r].cal][i] <= fr[r].syncToken[1]
              /\ primary[i] # <<>> /\ ~IsLive(primary[i])
              /\ \A c \in CalendarIds \ {fr[r].cal} : source[c][i] = <<>>

====
